---- MODULE Spec2Model ----
(***************************************************************************)
(* Model of utilities/filters.py: the Filter base class (parameter and     *)
(* coordinate normalisation) and the two concrete filters, Gaussian and    *)
(* Window.                                                                 *)
(*                                                                         *)
(* Numbers are integers.  Window sizes are drawn from even integers, so    *)
(* that size/2 is an integer: division of a float by two is exact.         *)
(* A tensor is a record [shape, data]: shape is the tuple of its axis      *)
(* lengths and data maps every index tuple to the element there.           *)
(***************************************************************************)
EXTENDS Integers, Sequences, FiniteSets, TLC

\* longest sequence handed to a constructor
MaxLen == 2
\* longest axis of a coordinate tensor
MaxAxis == 2

Min(a, b) == IF a <= b THEN a ELSE b

(***************************************************************************)
(* Python values.  An attribute or variable is a slot: not assigned yet,   *)
(* None, or a value.                                                       *)
(***************************************************************************)
Unset == [st |-> "unset", v |-> <<>>]
PyNone == [st |-> "None", v |-> <<>>]
Val(x) == [st |-> "val", v |-> x]

\* a constructor argument: None, a bare float, or a sequence
NoneArg == [tag |-> "None", v |-> <<>>]
FloatArg(x) == [tag |-> "float", v |-> <<x>>]
SeqArg(s) == [tag |-> "seq", v |-> s]
\* a limits argument that is one (low, high) tuple of two floats
PairArg(p) == [tag |-> "pair", v |-> <<p>>]

SeqsUpTo(S, n) == UNION {[1..k -> S] : k \in 0..n}
ScalarOrSeq(S) == {FloatArg(x) : x \in S} \cup {SeqArg(s) : s \in SeqsUpTo(S, MaxLen)}
Optional(A) == {NoneArg} \cup A

\* the values the constructors' arguments are drawn from
SigmaVals == {0, 1, 2}
MeanVals == {0, 1}
LimitVals == {<<0, 2>>}
PositionVals == {0, 2}
SizeVals == {0, 2}

VARIABLES self, status, given, call, heap, thread

vars == <<self, status, given, call, heap, thread>>

(***************************************************************************)
(* Filter._fix_parameters, for one parameter: (parameter,) for a float,    *)
(* tuple(parameter) for a sequence, None for None.                         *)
(***************************************************************************)
_fix_parameter(parameter) ==
    IF parameter.tag = "float" THEN Val(<<parameter.v[1]>>)
    ELSE IF parameter.tag # "None" THEN Val(parameter.v)
    ELSE PyNone

_fix_parameters(parameters) == [k \in DOMAIN parameters |-> _fix_parameter(parameters[k])]

(***************************************************************************)
(* Tensors                                                                 *)
(***************************************************************************)
\* the index tuples of a tensor of the given shape (one for a 0-dim tensor)
RECURSIVE Idx(_)
Idx(shape) ==
    IF shape = <<>> THEN {<<>>}
    ELSE {Append(i, j) : i \in Idx(SubSeq(shape, 1, Len(shape) - 1)),
                         j \in 1..shape[Len(shape)]}

\* the position of index tuple i in row-major order, from 0
RECURSIVE Offset(_, _)
Offset(i, shape) ==
    IF shape = <<>> THEN 0
    ELSE Offset(SubSeq(i, 1, Len(i) - 1), SubSeq(shape, 1, Len(shape) - 1)) * shape[Len(shape)]
         + (i[Len(i)] - 1)

\* the tensor of the given shape holding start, start + 1, ... in row-major order
Arange(start, shape) ==
    [shape |-> shape, data |-> [i \in Idx(shape) |-> start + Offset(i, shape)]]

\* the coordinate tensors callers pass: a 0-dim tensor, axes of every length,
\* and an already gridded square tensor
CoordinateShapes == {<<>>, <<MaxAxis, MaxAxis>>} \cup {<<n>> : n \in 1..MaxAxis}
Tensors == {Arange(-1, shape) : shape \in CoordinateShapes}

\* torch.meshgrid(*coordinates, indexing='xy'): the first two axes swapped
meshgrid_xy(coordinates) ==
    LET n == Len(coordinates)
        swap(i) == IF n < 2 THEN i
                   ELSE [k \in 1..n |-> IF k = 1 THEN i[2] ELSE IF k = 2 THEN i[1] ELSE i[k]]
        shape == swap([k \in 1..n |-> coordinates[k].shape[1]])
    IN  [d \in 1..n |->
            [shape |-> shape,
             data |-> [i \in Idx(shape) |-> coordinates[d].data[<<swap(i)[d]>>]]]]

\* torch.meshgrid(*coordinates, indexing='ij') of 1-dim tensors: output d has
\* the shape (len(axis 1), ..., len(axis n)) and holds axis d's value at
\* position i[d]
meshgrid(coordinates) ==
    LET shape == [k \in 1..Len(coordinates) |-> coordinates[k].shape[1]]
    IN  [d \in 1..Len(coordinates) |->
            [shape |-> shape,
             data |-> [i \in Idx(shape) |-> coordinates[d].data[<<i[d]>>]]]]

\* Filter._fix_coordinates, lines 18-19: the coordinates are meshed
meshes(d, coordinates) ==
    d # 1 /\ \A k \in 1..Len(coordinates) : Len(coordinates[k].shape) = 1

\* Filter._fix_coordinates; coordinates[0] of no coordinates is an IndexError
_fix_coordinates(d, coordinates) ==
    IF Len(coordinates) # d
    THEN [err |-> "ValueError", coordinates |-> <<>>]
    ELSE IF Len(coordinates) = 0
    THEN [err |-> "IndexError", coordinates |-> <<>>]
    ELSE IF meshes(d, coordinates)
    THEN [err |-> "", coordinates |-> meshgrid(coordinates)]
    ELSE IF d # 1 /\ ~ \A k \in 1..Len(coordinates) : coordinates[k].shape = coordinates[1].shape
    THEN [err |-> "ValueError", coordinates |-> <<>>]
    ELSE [err |-> "", coordinates |-> coordinates]

\* torch.ones(size) with every element replaced by value
Full(shape, value) == [shape |-> shape, data |-> [i \in Idx(shape) |-> value]]

(***************************************************************************)
(* Gaussian                                                                *)
(***************************************************************************)
\* a float c / (den * sqrt(2 pi)^pow), kept exact
One == [num |-> 1, den |-> 1, pow |-> 0]

\* Gaussian._set_normalization: the loop over self._sigmas, from position k
\* on; 1.0 / (sigma * _sqrt2pi) raises ZeroDivisionError for a zero sigma and
\* leaves the product of the sigmas before it in self._normalization
RECURSIVE _set_normalization_loop(_, _, _)
_set_normalization_loop(sigmas, k, acc) ==
    IF k > Len(sigmas) THEN [err |-> "", value |-> acc]
    ELSE IF sigmas[k] = 0 THEN [err |-> "ZeroDivisionError", value |-> acc]
    ELSE _set_normalization_loop(sigmas, k + 1,
            [acc EXCEPT !.den = @ * sigmas[k], !.pow = @ + 1])

_set_normalization(sigmas) == _set_normalization_loop(sigmas, 1, One)

\* Gaussian._set_multipliers: -1.0 / (2. * sigma * sigma), as <<num, den>>
_set_multipliers(sigmas) == [k \in 1..Len(sigmas) |-> <<-1, 2 * sigmas[k] * sigmas[k]>>]

NoObject ==
    [cls |-> "none", _sigmas |-> Unset, _means |-> Unset, _limits |-> Unset,
     _normalization |-> Unset, _multipliers |-> Unset,
     _positions0 |-> Unset, _positions1 |-> Unset]

\* Gaussian.dims and Window.dims
Gaussian_dims(obj) == Len(obj._sigmas.v)
Window_dims(obj) == Len(obj._positions0.v)
dims(obj) == IF obj.cls = "Gaussian" THEN Gaussian_dims(obj) ELSE Window_dims(obj)

\* the validation that forgets the means
lengths_differ_sigmas_limits(obj) ==
    \/ Len(obj._sigmas.v) # Gaussian_dims(obj)
    \/ (obj._limits.st # "None" /\ Len(obj._limits.v) # Gaussian_dims(obj))

\* Gaussian.__init__, line 65: the condition of the ValueError
lengths_differ(obj) ==
    \/ Len(obj._sigmas.v) # Gaussian_dims(obj)
    \/ Len(obj._means.v) # Gaussian_dims(obj)
    \/ (obj._limits.st # "None" /\ Len(obj._limits.v) # Gaussian_dims(obj))

\* Gaussian.__init__: the object as the constructor leaves it, and the
\* exception it ends with ("" when it returns)
Gaussian__init__(sigmas, means, limits) ==
    LET o1 == [NoObject EXCEPT !.cls = "Gaussian",
                  !._sigmas = IF sigmas.tag = "float" THEN Val(<<sigmas.v[1]>>)
                              ELSE Val(sigmas.v)]
        o2 == [o1 EXCEPT
                  !._means = IF means.tag = "None"
                                 THEN Val([k \in 1..Gaussian_dims(o1) |-> 0])
                             ELSE IF means.tag = "float" THEN Val(<<means.v[1]>>)
                             ELSE Val(means.v)]
        o3 == [o2 EXCEPT
                  !._limits = IF limits.tag = "None" THEN PyNone
                              ELSE IF limits.tag = "pair" THEN Val(<<limits.v[1]>>)
                              ELSE Val(limits.v)]
        n == _set_normalization(o3._sigmas.v)
    IN  IF lengths_differ(o3)
        THEN [obj |-> o3, err |-> "ValueError"]
        ELSE IF n.err # ""
        THEN [obj |-> [o3 EXCEPT !._normalization = Val(n.value)], err |-> n.err]
        ELSE [obj |-> [o3 EXCEPT !._normalization = Val(n.value),
                                 !._multipliers = Val(_set_multipliers(o3._sigmas.v))],
              err |-> ""]

(***************************************************************************)
(* Window                                                                  *)
(***************************************************************************)
\* the size where its half is meant
Whole(size) == size

\* size / 2
Half(size) == size \div 2

\* tuple([f(a, b) for a, b in zip(as, bs)]): zip stops at the shorter one
ZipLen(as, bs) == Min(Len(as), Len(bs))

\* a last branch that raises nothing
Window_else_pass(o) == [obj |-> o, err |-> ""]

\* Window.__init__, line 99: else: raise AttributeError
Window_else(o) == [obj |-> o, err |-> "AttributeError"]

\* Window.__init__
Window__init__(positions0, positions1, centers, sizes) ==
    LET fixed == _fix_parameters(<<positions0, positions1, centers, sizes>>)
        p0 == fixed[1]
        p1 == fixed[2]
        c == fixed[3]
        s == fixed[4]
        o == [NoObject EXCEPT !.cls = "Window"]
    IN  IF p0.st # "None" /\ p1.st # "None"
        THEN [obj |-> [o EXCEPT !._positions0 = p0, !._positions1 = p1], err |-> ""]
        ELSE IF p0.st # "None" /\ s.st # "None"
        THEN [obj |-> [o EXCEPT !._positions0 = p0,
                  !._positions1 = Val([k \in 1..ZipLen(p0.v, s.v) |-> p0.v[k] + s.v[k]])],
              err |-> ""]
        ELSE IF p1.st # "None" /\ s.st # "None"
        THEN [obj |-> [o EXCEPT !._positions1 = p1,
                  !._positions0 = Val([k \in 1..ZipLen(p1.v, s.v) |-> p1.v[k] - s.v[k]])],
              err |-> ""]
        ELSE IF c.st # "None" /\ s.st # "None"
        THEN [obj |-> [o EXCEPT
                  !._positions0 = Val([k \in 1..ZipLen(c.v, s.v) |-> c.v[k] - Half(s.v[k])]),
                  !._positions1 = Val([k \in 1..ZipLen(c.v, s.v) |-> c.v[k] + Half(s.v[k])])],
              err |-> ""]
        ELSE Window_else(o)

(***************************************************************************)
(* Evaluation                                                              *)
(***************************************************************************)
\* Gaussian.__call__, line 73: torch.ones(...) * self._normalization.  An
\* element is the float coef * exp(e1) * exp(e2) ..., kept as its factors
Gaussian_ones(obj, coordinates) ==
    Full(coordinates[1].shape, [coef |-> obj._normalization.v, exps |-> <<>>])

\* Gaussian.__call__, line 75, for axis k, in place:
\* result *= torch.exp(multiplier * (mean - coordinate)**2)
Gaussian_axis(obj, coordinates, k, result) ==
    LET multiplier == obj._multipliers.v[k]
        mean == obj._means.v[k]
        coordinate == coordinates[k]
    IN  [result EXCEPT !.data = [i \in DOMAIN result.data |->
            [result.data[i] EXCEPT !.exps = Append(@,
                <<multiplier[1] * (mean - coordinate.data[i]) * (mean - coordinate.data[i]),
                  multiplier[2]>>)]]]

\* zip(self._multipliers, self._means, coordinates) stops at the shortest
Gaussian_axes(obj, coordinates) ==
    Min(Len(obj._multipliers.v), Min(Len(obj._means.v), Len(coordinates)))

\* Window.__call__, line 103
Window_ones(obj, coordinates) == Full(coordinates[1].shape, 1)

\* a boolean as a number
Num(b) == IF b THEN 1 ELSE 0

\* Window.__call__, line 105, for axis k, in place:
\* result *= (position0 <= coordinate) * (coordinate <= position1)
Window_axis(obj, coordinates, k, result) ==
    LET position0 == obj._positions0.v[k]
        position1 == obj._positions1.v[k]
        coordinate == coordinates[k]
    IN  [result EXCEPT !.data = [i \in DOMAIN result.data |->
            result.data[i] * (Num(position0 <= coordinate.data[i])
                              * Num(coordinate.data[i] <= position1))]]

\* zip(self._positions0, self._positions1, coordinates) stops at the shortest
Window_axes(obj, coordinates) ==
    Min(Len(obj._positions0.v), Min(Len(obj._positions1.v), Len(coordinates)))

ones(obj, coordinates) ==
    IF obj.cls = "Gaussian" THEN Gaussian_ones(obj, coordinates)
    ELSE Window_ones(obj, coordinates)
axis(obj, coordinates, k, result) ==
    IF obj.cls = "Gaussian" THEN Gaussian_axis(obj, coordinates, k, result)
    ELSE Window_axis(obj, coordinates, k, result)
axes(obj, coordinates) ==
    IF obj.cls = "Gaussian" THEN Gaussian_axes(obj, coordinates)
    ELSE Window_axes(obj, coordinates)

\* the for loop of __call__ from axis k on
RECURSIVE loop(_, _, _, _)
loop(obj, coordinates, k, result) ==
    IF k > axes(obj, coordinates) THEN result
    ELSE loop(obj, coordinates, k + 1, axis(obj, coordinates, k, result))

\* Gaussian.__call__ and Window.__call__: the exception raised ("" for none)
\* and the tensor returned
__call__(obj, coordinates) ==
    LET fixed == _fix_coordinates(dims(obj), coordinates)
    IN  IF fixed.err # "" THEN [err |-> fixed.err, result |-> <<>>]
        ELSE [err |-> "",
              result |-> loop(obj, fixed.coordinates, 1, ones(obj, fixed.coordinates))]

\* the keyword arguments of a constructor call that are not None
Supplied(kwargs) == {k \in DOMAIN kwargs : kwargs[k].tag # "None"}

NoCall == [made |-> FALSE, coordinates |-> <<>>, err |-> "", result |-> <<>>]

Init ==
    /\ self = NoObject
    /\ status = "none"
    /\ given = {}
    /\ call = NoCall
    /\ heap = <<>>
    /\ thread = <<>>

\* Gaussian(sigmas, means, limits)
NewGaussian ==
    /\ status = "none"
    /\ \E sigmas \in ScalarOrSeq(SigmaVals), means \in Optional(ScalarOrSeq(MeanVals)),
       limits \in Optional({PairArg(p) : p \in LimitVals}
                           \cup {SeqArg(s) : s \in SeqsUpTo(LimitVals, MaxLen)}) :
        LET r == Gaussian__init__(sigmas, means, limits)
        IN  /\ self' = r.obj
            /\ status' = IF r.err = "" THEN "ok" ELSE r.err
            /\ given' = Supplied([sigmas |-> sigmas, means |-> means, limits |-> limits])
            /\ UNCHANGED <<call, heap, thread>>

\* Window(positions0, positions1, centers, sizes)
NewWindow ==
    /\ status = "none"
    /\ \E positions0 \in Optional(ScalarOrSeq(PositionVals)),
       positions1 \in Optional(ScalarOrSeq(PositionVals)),
       centers \in Optional(ScalarOrSeq(PositionVals)),
       sizes \in Optional(ScalarOrSeq(SizeVals)) :
        LET r == Window__init__(positions0, positions1, centers, sizes)
        IN  /\ self' = r.obj
            /\ status' = IF r.err = "" THEN "ok" ELSE r.err
            /\ given' = Supplied([positions0 |-> positions0, positions1 |-> positions1,
                                  centers |-> centers, sizes |-> sizes])
            /\ UNCHANGED <<call, heap, thread>>

\* self(*coordinates) on the constructed filter
Call ==
    /\ status = "ok"
    /\ ~ call.made
    /\ \E n \in 0..MaxLen : \E coordinates \in [1..n -> Tensors] :
        LET r == __call__(self, coordinates)
        IN  /\ call' = [made |-> TRUE, coordinates |-> coordinates,
                        err |-> r.err, result |-> r.result]
            /\ UNCHANGED <<self, status, given, heap, thread>>

\* the caller is done with the outcome of its call and may call again
Discard ==
    /\ call.made
    /\ call' = NoCall
    /\ UNCHANGED <<self, status, given, heap, thread>>

Next == NewGaussian \/ NewWindow \/ Call \/ Discard

Spec == Init /\ [][Next]_vars

(***************************************************************************)
(* Calls from several threads on one constructed filter, statement by      *)
(* statement.  The callers' tensors live in the heap at the addresses      *)
(* 1..Len(Pool) and may be shared between threads; every tensor a call     *)
(* creates gets a cell of its own.  torch.meshgrid returns views of its    *)
(* arguments, so a meshed coordinate is read through to the caller's       *)
(* tensor.                                                                 *)
(***************************************************************************)
Threads == {1, 2}

Pool == <<Arange(-1, <<MaxAxis>>), Arange(1, <<1>>), Arange(-1, <<MaxAxis, MaxAxis>>)>>

Idle ==
    [pc |-> "idle", args |-> <<>>, mesh |-> FALSE, k |-> 0, res |-> 0,
     err |-> "", out |-> <<>>]

\* the filters the threads call
SharedFilters ==
    {Gaussian__init__(SeqArg(<<1, 2>>), NoneArg, NoneArg).obj,
     Gaussian__init__(FloatArg(1), FloatArg(1), PairArg(<<0, 2>>)).obj,
     Window__init__(SeqArg(<<0, 0>>), SeqArg(<<2, 1>>), NoneArg, NoneArg).obj,
     Window__init__(NoneArg, NoneArg, FloatArg(0), FloatArg(2)).obj,
     Window__init__(SeqArg(<<0, 0>>), SeqArg(<<2>>), NoneArg, NoneArg).obj,
     Window__init__(SeqArg(<<>>), NoneArg, NoneArg, SeqArg(<<>>)).obj}

InitThreads ==
    /\ self \in SharedFilters
    /\ status = "ok"
    /\ given = {}
    /\ call = NoCall
    /\ heap = [a \in 1..(Len(Pool) + Cardinality(Threads)) |->
                  IF a <= Len(Pool) THEN Val(Pool[a]) ELSE Unset]
    /\ thread = [t \in Threads |-> Idle]

\* the tensors at the given addresses of heap h
At(h, addrs) == [k \in 1..Len(addrs) |-> h[addrs[k]].v]

\* the coordinates variable of thread t's call, read now
Coordinates(h, t) ==
    IF thread[t].mesh THEN meshgrid(At(h, thread[t].args)) ELSE At(h, thread[t].args)

\* no allocation in Window.__call__: result = coordinates[0], so that the
\* loop works in place on the first coordinate tensor
allocate_in_place(t, args) ==
    IF self.cls = "Window" /\ Len(args) > 0 THEN args[1] ELSE Len(Pool) + t

\* torch.ones(...) allocates: the address of the new tensor of thread t's call
allocate(t, args) == Len(Pool) + t

\* thread t calls self(*coordinates) with the tensors at the addresses args
Begin(t) ==
    /\ thread[t].pc = "idle"
    /\ \E n \in 0..MaxLen : \E args \in [1..n -> 1..Len(Pool)] :
        thread' = [thread EXCEPT ![t] = [Idle EXCEPT !.pc = "fix", !.args = args]]
    /\ UNCHANGED <<self, status, given, call, heap>>

\* line 72 / 102: coordinates = self._fix_coordinates(self.dims, *coordinates)
Fix(t) ==
    /\ thread[t].pc = "fix"
    /\ LET passed == At(heap, thread[t].args)
           fixed == _fix_coordinates(dims(self), passed)
       IN  thread' = [thread EXCEPT ![t] =
               IF fixed.err # "" THEN [@ EXCEPT !.pc = "raised", !.err = fixed.err]
               ELSE [@ EXCEPT !.pc = "ones", !.mesh = meshes(dims(self), passed)]]
    /\ UNCHANGED <<self, status, given, call, heap>>

\* line 73 / 103: result = torch.ones(...)
Ones(t) ==
    /\ thread[t].pc = "ones"
    /\ LET res == allocate(t, thread[t].args)
       IN  /\ heap' = [heap EXCEPT ![res] = Val(ones(self, Coordinates(heap, t)))]
           /\ thread' = [thread EXCEPT ![t] = [@ EXCEPT !.pc = "loop", !.k = 1, !.res = res]]
    /\ UNCHANGED <<self, status, given, call>>

\* line 75 / 105: one pass of the loop, result *= ... in place
Axis(t) ==
    /\ thread[t].pc = "loop"
    /\ thread[t].k <= axes(self, Coordinates(heap, t))
    /\ heap' = [heap EXCEPT ![thread[t].res] =
                   Val(axis(self, Coordinates(heap, t), thread[t].k, @.v))]
    /\ thread' = [thread EXCEPT ![t] = [@ EXCEPT !.k = @ + 1]]
    /\ UNCHANGED <<self, status, given, call>>

\* line 76 / 106: return result; the tensor is the caller's from here on
Return(t) ==
    /\ thread[t].pc = "loop"
    /\ thread[t].k > axes(self, Coordinates(heap, t))
    /\ thread' = [thread EXCEPT ![t] = [@ EXCEPT !.pc = "returned",
                                                 !.out = heap[thread[t].res].v]]
    /\ heap' = IF thread[t].res > Len(Pool) THEN [heap EXCEPT ![thread[t].res] = Unset]
               ELSE heap
    /\ UNCHANGED <<self, status, given, call>>

\* the caller has taken the outcome of its call
Finish(t) ==
    /\ thread[t].pc \in {"returned", "raised"}
    /\ thread' = [thread EXCEPT ![t] = Idle]
    /\ UNCHANGED <<self, status, given, call, heap>>

NextThreads ==
    \E t \in Threads : Begin(t) \/ Fix(t) \/ Ones(t) \/ Axis(t) \/ Return(t) \/ Finish(t)

SpecThreads == InitThreads /\ [][NextThreads]_vars

(***************************************************************************)
(* Properties                                                              *)
(***************************************************************************)
Built == status = "ok"
IsGaussian == self.cls = "Gaussian"
IsWindow == self.cls = "Window"

\* the four supported parameter combinations of Window
Combinations ==
    {{"positions0", "positions1"}, {"positions0", "sizes"},
     {"positions1", "sizes"}, {"centers", "sizes"}}
Satisfied == {c \in Combinations : c \subseteq given}

\* the coordinates of the last call as the evaluation sees them
Seen == _fix_coordinates(dims(self), call.coordinates).coordinates

\* a 0-dim tensor holding x
Scalar(x) == Arange(x, <<>>)

\* C2: a Gaussian construction whose normalised sigmas, means and limits
\* (when given) do not all have one length ends in the ValueError; after a
\* successful construction sigmas and means have length dims, limits is None
\* or has length dims, and means that were not given are dims zeros.
C2_GaussianLengths ==
    (IsGaussian /\ status # "none") =>
        LET ls == {Len(self._sigmas.v), Len(self._means.v)}
                  \cup (IF self._limits.st = "None" THEN {} ELSE {Len(self._limits.v)})
        IN  /\ Cardinality(ls) > 1 => status = "ValueError"
            /\ Built =>
                /\ Len(self._sigmas.v) = Gaussian_dims(self)
                /\ Len(self._means.v) = Gaussian_dims(self)
                /\ self._limits.st = "None" \/ Len(self._limits.v) = Gaussian_dims(self)
                /\ "means" \notin given =>
                       self._means.v = [k \in 1..Gaussian_dims(self) |-> 0]

\* Gaussian(sigmas=[1,2], means=[0]) was refused
C2_Witness ==
    /\ IsGaussian /\ status = "ValueError"
    /\ self._sigmas.v = <<1, 2>> /\ self._means.v = <<0>> /\ self._limits.st = "None"

\* C6 as stated: a Window is constructed only when the supplied arguments
\* satisfy exactly one of the four combinations.
C6_ExactlyOneCombination ==
    (IsWindow /\ Built) => Cardinality(Satisfied) = 1

\* C7: when the supplied arguments satisfy none of the four combinations the
\* construction ends in the AttributeError and the object has no bounds.
C7_NoCombinationRaises ==
    (IsWindow /\ status # "none" /\ Satisfied = {}) =>
        /\ status = "AttributeError"
        /\ self._positions0.st = "unset"
        /\ self._positions1.st = "unset"

\* Window(positions0=..., centers=...) was refused
C7_Witness ==
    IsWindow /\ given = {"positions0", "centers"} /\ status = "AttributeError"

\* C9 as stated: every constructed filter has dims >= 1, and dims keeps its
\* value for as long as the filter lives.
C9_DimsPositiveAndFixed ==
    /\ [](Built => dims(self) >= 1)
    /\ [][Built => (Built' /\ dims(self)' = dims(self))]_vars

\* C10 as stated: after a successful Window construction positions0 and
\* positions1 have the same length, dims.
C10_BoundsSameLength ==
    (IsWindow /\ Built) =>
        /\ Len(self._positions0.v) = Window_dims(self)
        /\ Len(self._positions1.v) = Window_dims(self)

\* the point of the last call's grid at index i lies within every bound the
\* Window stores for the axes 1..dims
WithinBounds(i) ==
    \A d \in 1..Window_dims(self) :
        /\ d <= Len(self._positions0.v) => self._positions0.v[d] <= Seen[d].data[i]
        /\ d <= Len(self._positions1.v) => Seen[d].data[i] <= self._positions1.v[d]

\* C1 as stated: wherever a constructed Window is evaluated the result is 1
\* when the point lies within the bounds on every axis, bounds included, and
\* 0 when it lies outside them on some axis.
C1_WindowIndicator ==
    (IsWindow /\ call.made /\ call.err = "") =>
        \A i \in DOMAIN call.result.data :
            call.result.data[i] = IF WithinBounds(i) THEN 1 ELSE 0

\* the shape-mismatch condition of a call with the given coordinates
ShapeMismatch(coordinates) ==
    \/ Len(coordinates) # dims(self)
    \/ /\ dims(self) > 1
       /\ ~ \A k \in 1..Len(coordinates) : Len(coordinates[k].shape) = 1
       /\ ~ \A j, k \in 1..Len(coordinates) : coordinates[j].shape = coordinates[k].shape

\* C3 as stated: a call raises the shape-mismatch ValueError exactly when the
\* number of coordinates differs from dims, or dims > 1 and the coordinates
\* are neither all 1-dimensional nor all of one shape; every other call
\* returns a result.
C3_ShapeMismatchIff ==
    call.made =>
        IF ShapeMismatch(call.coordinates)
        THEN call.err = "ValueError"
        ELSE call.err = ""

\* the value of the filter at one point, given as 0-dim tensors
AtPoint(point) == __call__(self, [d \in 1..Len(point) |-> Scalar(point[d])]).result.data[<<>>]

\* the last call handed a filter of more than one dimension dims axes
MeshedCall ==
    /\ Built /\ call.made
    /\ dims(self) > 1
    /\ Len(call.coordinates) = dims(self)
    /\ \A k \in 1..Len(call.coordinates) : Len(call.coordinates[k].shape) = 1

\* C4: a filter of dims > 1 called with dims axes of lengths n_1..n_dims
\* returns a tensor of shape (n_1, ..., n_dims) whose element at
\* (i_1, ..., i_dims) is the filter's value at (axis_1[i_1], ..., axis_dims[i_dims]).
C4_MeshIndexMajor ==
    MeshedCall =>
        /\ call.err = ""
        /\ call.result.shape = [k \in 1..dims(self) |-> call.coordinates[k].shape[1]]
        /\ \A i \in DOMAIN call.result.data :
               call.result.data[i] =
                   AtPoint([d \in 1..dims(self) |-> call.coordinates[d].data[<<i[d]>>]])

\* a 2-dim Window called with an axis of length 1 and an axis of length
\* MaxAxis, some point of the grid inside the window and some outside
C4_Witness ==
    /\ MeshedCall /\ IsWindow
    /\ call.coordinates[1].shape = <<1>>
    /\ call.coordinates[2].shape = <<MaxAxis>>
    /\ call.err = ""
    /\ {call.result.data[i] : i \in DOMAIN call.result.data} = {0, 1}

\* the sizes and centers that encode the stored interval of every axis
sizesOf == [k \in 1..Window_dims(self) |-> self._positions1.v[k] - self._positions0.v[k]]
HasCenters == \A k \in 1..Window_dims(self) : sizesOf[k] % 2 = 0
centersOf ==
    [k \in 1..Window_dims(self) |->
        CHOOSE c \in -8..8 : 2 * c = self._positions0.v[k] + self._positions1.v[k]]

\* the constructions, one per path, from arguments that encode the stored interval
Paths ==
    {Window__init__(SeqArg(self._positions0.v), SeqArg(self._positions1.v), NoneArg, NoneArg),
     Window__init__(SeqArg(self._positions0.v), NoneArg, NoneArg, SeqArg(sizesOf)),
     Window__init__(NoneArg, SeqArg(self._positions1.v), NoneArg, SeqArg(sizesOf))}
    \cup (IF HasCenters
          THEN {Window__init__(NoneArg, NoneArg, SeqArg(centersOf), SeqArg(sizesOf))}
          ELSE {})

\* C5: the four construction paths, given arguments that encode one interval
\* per axis, store the same positions0 and positions1 and evaluate alike.
C5_PathsAgree ==
    (IsWindow /\ Built /\ Len(self._positions0.v) = Len(self._positions1.v)) =>
        \A r \in Paths :
            /\ r.err = ""
            /\ r.obj._positions0.v = self._positions0.v
            /\ r.obj._positions1.v = self._positions1.v
            /\ call.made =>
                   __call__(r.obj, call.coordinates) = [err |-> call.err, result |-> call.result]

\* the window [-1, 1] built from centers=[0], sizes=[2], evaluated on the grid
C5_Witness ==
    /\ IsWindow /\ Built /\ given = {"centers", "sizes"}
    /\ self._positions0.v = <<-1>> /\ self._positions1.v = <<1>>
    /\ call.made /\ call.err = ""
    /\ call.result.shape = <<MaxAxis, MaxAxis>>

\* the outcome of thread t's call run on its own against the callers' tensors
Isolated(t) == __call__(self, [k \in 1..Len(thread[t].args) |-> Pool[thread[t].args[k]]])

\* the callers' tensors are as the callers made them
InputsIntact == \A a \in 1..Len(Pool) : heap[a] = Val(Pool[a])

\* every finished call ended as it does on its own
OutcomesIsolated ==
    \A t \in Threads :
        /\ thread[t].pc = "returned" =>
               Isolated(t) = [err |-> "", result |-> thread[t].out]
        /\ thread[t].pc = "raised" => Isolated(t).err = thread[t].err

\* C8: whatever calls the threads make and however they interleave, the
\* filter keeps the parameters and constants it was constructed with, the
\* callers' coordinate tensors are not modified, and every call ends as the
\* same call does when run on its own.
C8_EvaluationPure ==
    /\ [](InputsIntact /\ OutcomesIsolated)
    /\ [][self' = self]_vars

\* one thread has its result while the other, which shares a coordinate
\* tensor with it, is in the middle of its loop
C8_Witness ==
    \E t, u \in Threads :
        /\ t # u
        /\ thread[t].pc = "returned"
        /\ thread[u].pc = "loop" /\ thread[u].k = 2
        /\ Len(thread[t].args) = 2 /\ Len(thread[u].args) = 2
        /\ thread[t].args[1] = thread[u].args[1]
====
